---- MODULE Spec2Model ----
(***************************************************************************)
(* Praxis-Dienstplanung (src/app.py): a Streamlit script.  Every user      *)
(* interaction re-runs the script top to bottom against st.session_state;  *)
(* one action of this module is one such script run, except the "Plan      *)
(* erstellen" run, which is split into its loop iterations (preferred      *)
(* pass entry by entry, fill pass slot by slot and commit by commit).      *)
(***************************************************************************)
EXTENDS Integers, Sequences, FiniteSets, TLC

(* ------------------------------------------------------------------ *)
(* Bounds and input universes                                          *)
(* ------------------------------------------------------------------ *)
MaxHours == 2

days == <<"Montag", "Dienstag", "Mittwoch", "Donnerstag", "Freitag">>
schifts == <<"Vormittag", "Nachmittag">>

Range(seq) == {seq[n] : n \in 1..Len(seq)}

\* f"{d} {s}": a slot label is kept as the list of its blank-separated words
SlotLabel(d, s) == <<d, s>>
\* slot.split(" ")
SplitSlot(slot) == slot

slots_order == <<SlotLabel("Montag", "Vormittag"), SlotLabel("Montag", "Nachmittag"),
                 SlotLabel("Dienstag", "Vormittag"), SlotLabel("Dienstag", "Nachmittag"),
                 SlotLabel("Mittwoch", "Vormittag"), SlotLabel("Mittwoch", "Nachmittag"),
                 SlotLabel("Donnerstag", "Vormittag"), SlotLabel("Donnerstag", "Nachmittag"),
                 SlotLabel("Freitag", "Vormittag"), SlotLabel("Freitag", "Nachmittag")>>

\* the characters of the area names that occur, for str.startswith
Chars == [b \in {"Rezeption", "Rezeption 1", "Rezeption 2", "Labor", "Archiv"} |->
            CASE b = "Rezeption"   -> <<"R","e","z","e","p","t","i","o","n">>
              [] b = "Rezeption 1" -> <<"R","e","z","e","p","t","i","o","n"," ","1">>
              [] b = "Rezeption 2" -> <<"R","e","z","e","p","t","i","o","n"," ","2">>
              [] b = "Labor"       -> <<"L","a","b","o","r">>
              [] b = "Archiv"      -> <<"A","r","c","h","i","v">>]

\* str.startswith(prefix)
startswith(b, prefix) ==
    /\ Len(Chars[prefix]) <= Len(Chars[b])
    /\ SubSeq(Chars[b], 1, Len(Chars[prefix])) = Chars[prefix]

(* ------------------------------------------------------------------ *)
(* Python dict with insertion order                                    *)
(* ------------------------------------------------------------------ *)
EmptyDict == [order |-> <<>>, val |-> <<>>]

DictHas(dct, k) == k \in Range(dct.order)

\* dct[k] = v : a new key goes to the end, an existing key keeps its place
DictSet(dct, k, v) ==
    IF DictHas(dct, k)
    THEN [order |-> dct.order, val |-> [dct.val EXCEPT ![k] = v]]
    ELSE [order |-> Append(dct.order, k),
          val   |-> [x \in Range(dct.order) \cup {k} |-> IF x = k THEN v ELSE dct.val[x]]]

(* ------------------------------------------------------------------ *)
(* Configuration files                                                 *)
(* ------------------------------------------------------------------ *)
required_keys == {"bereiche", "mitarbeiter", "standard_dienstplan",
                  "bereich_schichten", "bereich_mitarbeiter",
                  "mitarbeiter_verfuegbarkeit",
                  "mitarbeiter_bereiche", "mitarbeiter_max_stunden",
                  "spezial_regeln"}

NoPriority == "-none-"

\* day -> shifts of the day, from a set of (day, shift) pairs
ShiftsOn(pairs) == [d \in Range(days) |-> {s \in Range(schifts) : <<d, s>> \in pairs}]

MoV == <<"Montag", "Vormittag">>
MoN == <<"Montag", "Nachmittag">>
DiV == <<"Dienstag", "Vormittag">>
FrN == <<"Freitag", "Nachmittag">>

Bereiche == <<"Rezeption 1", "Rezeption 2", "Labor">>
Mitarbeiter == <<"Anna", "Berta", "Clara">>

\* The practice layout.  Montag Vormittag is a slot that all three areas
\* demand; Dienstag Vormittag is a reception-only slot in which Rezeption 2
\* has fewer eligible staff than Rezeption 1.  Clara lists Rezeption 1
\* without being listed by it, and Labor lists Berta, who does not list
\* Labor.  The preferred table has two entries for Anna in one slot, an
\* entry under a label that is no slot of the week, an entry for an area
\* and one for a staff member that the configuration does not know.
Layout ==
    [bereich_schichten |->
        [b \in Range(Bereiche) |->
            CASE b = "Rezeption 1" -> ShiftsOn({MoV, DiV})
              [] b = "Rezeption 2" -> ShiftsOn({MoV, DiV})
              [] b = "Labor"       -> ShiftsOn({MoV, MoN, FrN})],
     bereich_mitarbeiter |->
        [b \in Range(Bereiche) |->
            CASE b = "Rezeption 1" -> {"Anna", "Berta"}
              [] b = "Rezeption 2" -> {"Berta", "Clara"}
              [] b = "Labor"       -> {"Anna", "Berta", "Clara"}],
     mitarbeiter_verfuegbarkeit |->
        [h \in Range(Mitarbeiter) |->
            CASE h = "Anna"  -> ShiftsOn({MoV, DiV, FrN})
              [] h = "Berta" -> ShiftsOn({MoV, DiV})
              [] h = "Clara" -> ShiftsOn({MoV, MoN, FrN})],
     mitarbeiter_bereiche |->
        [h \in Range(Mitarbeiter) |->
            CASE h = "Anna"  -> {"Rezeption 1", "Labor"}
              [] h = "Berta" -> {"Rezeption 1", "Rezeption 2"}
              [] h = "Clara" -> {"Rezeption 1", "Rezeption 2", "Labor"}],
     standard_dienstplan |->
        << [slot |-> MoV, belegungen |-> << <<"Rezeption 1", "Anna">>, <<"Labor", "Anna">> >>],
           [slot |-> <<"Montag">>, belegungen |-> << <<"Rezeption 1", "Berta">> >>],
           [slot |-> MoN, belegungen |-> << <<"Labor", "Clara">>, <<"Archiv", "Anna">> >>],
           [slot |-> DiV, belegungen |-> << <<"Rezeption 1", "Zoe">> >>] >>]

\* a well-formed configuration file: every required key, every mapping complete
GoodFile(maxh, prio, flag) ==
    [json_ok |-> TRUE,
     keys |-> required_keys,
     bereiche |-> Bereiche,
     mitarbeiter |-> Mitarbeiter,
     standard_dienstplan |-> Layout.standard_dienstplan,
     bereich_schichten |-> Layout.bereich_schichten,
     bereich_mitarbeiter |-> Layout.bereich_mitarbeiter,
     mitarbeiter_verfuegbarkeit |-> Layout.mitarbeiter_verfuegbarkeit,
     mitarbeiter_bereiche |-> Layout.mitarbeiter_bereiche,
     mitarbeiter_max_stunden |-> maxh,
     spezial_regeln |-> [rezeption_prioritaet |-> prio,
                         rezeption2_bedarf_erfuellt_vorher |-> flag]]

Restrict(f, S) == [x \in S |-> f[x]]

PlainFile == GoodFile([h \in Range(Mitarbeiter) |-> 1], NoPriority, FALSE)

\* files the loader or the validation has to turn away
BadFiles ==
    { [PlainFile EXCEPT !.json_ok = FALSE],
      [PlainFile EXCEPT !.keys = required_keys \ {"spezial_regeln"}],
      [PlainFile EXCEPT !.keys = required_keys \ {"standard_dienstplan"}],
      [PlainFile EXCEPT !.bereich_schichten =
            Restrict(PlainFile.bereich_schichten, {"Rezeption 1", "Rezeption 2"})],
      [PlainFile EXCEPT !.mitarbeiter_max_stunden =
            Restrict(PlainFile.mitarbeiter_max_stunden, {"Anna", "Berta"})],
      [PlainFile EXCEPT !.mitarbeiter_bereiche =
            Restrict(PlainFile.mitarbeiter_bereiche, {"Anna", "Clara"})],
      [PlainFile EXCEPT !.mitarbeiter_verfuegbarkeit =
            Restrict(PlainFile.mitarbeiter_verfuegbarkeit, {"Berta", "Clara"})] }

GoodFiles ==
    { GoodFile(maxh, prio, flag) :
        maxh \in [Range(Mitarbeiter) -> 0..MaxHours],
        prio \in {NoPriority, "Berta"},
        flag \in BOOLEAN }

Files == GoodFiles \cup BadFiles

\* the state of st.session_state.config_data before a file is accepted (None)
NoConfig == [PlainFile EXCEPT !.json_ok = FALSE, !.keys = {}]

(* ------------------------------------------------------------------ *)
(* load_config / validate_config                                       *)
(* ------------------------------------------------------------------ *)
\* load_config without the loop over required_keys
load_config_unchecked(uploaded_file) ==
    IF ~uploaded_file.json_ok THEN NoConfig ELSE uploaded_file

\* load_config: the parsed file, or NoConfig where the code returns None
load_config(uploaded_file) ==
    IF ~uploaded_file.json_ok THEN NoConfig
    ELSE IF \E key \in required_keys : key \notin uploaded_file.keys THEN NoConfig
    ELSE uploaded_file

\* validate_config: the set of error messages
validate_config(config) ==
    {<<"bereich_schichten", b>> : b \in {x \in Range(config.bereiche) :
                                            x \notin DOMAIN config.bereich_schichten}}
    \cup {<<"mitarbeiter_verfuegbarkeit", m>> : m \in {x \in Range(config.mitarbeiter) :
                                            x \notin DOMAIN config.mitarbeiter_verfuegbarkeit}}
    \cup {<<"mitarbeiter_bereiche", m>> : m \in {x \in Range(config.mitarbeiter) :
                                            x \notin DOMAIN config.mitarbeiter_bereiche}}
    \cup {<<"mitarbeiter_max_stunden", m>> : m \in {x \in Range(config.mitarbeiter) :
                                            x \notin DOMAIN config.mitarbeiter_max_stunden}}

(* ------------------------------------------------------------------ *)
(* Session state, widget state, the locals of a "Plan erstellen" run   *)
(* ------------------------------------------------------------------ *)
VARIABLES
    config_loaded,      \* st.session_state.config_loaded
    config_data,        \* st.session_state.config_data (NoConfig for None)
    bereiche_cfg,       \* st.session_state.bereiche_cfg, an ordered dict
    helpers_cfg,        \* st.session_state.helpers_cfg, an ordered dict
    selected_bereiche,  \* value of the multiselect "Bereiche auswaehlen"
    selected_helpers,   \* value of the multiselect "Arzthelferinnen auswaehlen"
    pc,                 \* "idle", or the position inside a generate run
    plan,               \* local plan
    used_helpers,       \* local used_helpers
    df_demand,          \* local df_demand
    df_pivot,           \* local df_pivot (<<>> while there is none); session_state's
                        \* current_plan and current_pivot are copies of plan and
                        \* df_pivot that the script never reads back
    todo,               \* entries of standard_plan_map the preferred pass has not reached
    slot_idx,           \* position of the fill pass in slots_order
    bereich_kandidaten, \* the part of the sorted list the commit loop has not reached
    shown,              \* what the run rendered: "none", "error", "roster" or "warning"
    styles,             \* the result of highlight_unfilled for the rendered roster
    pref_eligible,      \* history: preferred entries that met every condition when reached
    last_commit,        \* history: the latest commit of the fill pass
    last_ran,           \* history: a run has finished and no input has changed since
    last_plan           \* history: the plan of that run

vars == <<config_loaded, config_data, bereiche_cfg, helpers_cfg,
          selected_bereiche, selected_helpers, pc, plan,
          used_helpers, df_demand, df_pivot, todo, slot_idx, bereich_kandidaten, shown,
          styles, pref_eligible, last_commit, last_ran, last_plan>>

session_vars == <<config_loaded, config_data, bereiche_cfg, helpers_cfg>>
widget_vars == <<selected_bereiche, selected_helpers>>
history_vars == <<pref_eligible, last_commit, last_ran, last_plan>>

NoCommit == [slot |-> <<>>, bereich |-> "", candidates |-> <<>>, hours |-> <<>>,
             chosen |-> "", pending |-> <<>>, deferral |-> FALSE, earlier |-> <<>>]

\* the values the locals of the script have when no generate run is in progress
NoRun ==
    /\ plan = <<>>
    /\ used_helpers = <<>>
    /\ df_demand = <<>>
    /\ df_pivot = <<>>
    /\ todo = <<>>
    /\ slot_idx = 0
    /\ bereich_kandidaten = <<>>
    /\ styles = <<>>
    /\ pref_eligible = {}
    /\ last_commit = NoCommit

\* a script run that does not generate leaves no plan, no table, no styles
ResetRun ==
    /\ plan' = <<>>
    /\ used_helpers' = <<>>
    /\ df_demand' = <<>>
    /\ df_pivot' = <<>>
    /\ todo' = <<>>
    /\ slot_idx' = 0
    /\ bereich_kandidaten' = <<>>
    /\ styles' = <<>>
    /\ pref_eligible' = {}
    /\ last_commit' = NoCommit

Init ==
    /\ config_loaded = FALSE
    /\ config_data = NoConfig
    /\ bereiche_cfg = EmptyDict
    /\ helpers_cfg = EmptyDict
    /\ selected_bereiche = <<>>
    /\ selected_helpers = <<>>
    /\ pc = "idle"
    /\ shown = "none"
    /\ NoRun
    /\ last_ran = FALSE
    /\ last_plan = <<>>

(* ------------------------------------------------------------------ *)
(* Sections 1 and 2 of the page: the two dicts are refreshed for the   *)
(* selected entries on every script run                                *)
(* ------------------------------------------------------------------ *)
\* dict.get(k, default) on a configuration mapping
Get(map, k, default) == IF k \in DOMAIN map THEN map[k] ELSE default

\* the entry written for one selected area; the widgets inside the expanders
\* are left at their defaults, which come from the configuration
BereichEntry(cfg, bereich) ==
    LET defaults == Get(cfg.bereich_schichten, bereich, [d \in Range(days) |-> {}])
    IN [shifts  |-> [d \in Range(days) |-> Get(defaults, d, {})],
        helpers |-> Get(cfg.bereich_mitarbeiter, bereich, {})]

\* the entry written for one selected staff member (widgets left at their defaults)
HelperEntry(cfg, h) ==
    LET h_defaults == Get(cfg.mitarbeiter_verfuegbarkeit, h, [d \in Range(days) |-> {}])
    IN [max_hours |-> Get(cfg.mitarbeiter_max_stunden, h, 40),
        times     |-> [d \in Range(days) |-> Get(h_defaults, d, {}) \cap Range(schifts)],
        areas     |-> Get(cfg.mitarbeiter_bereiche, h, {})]

RECURSIVE RefreshBereiche(_, _, _)
RefreshBereiche(cfg, sel, dct) ==
    IF sel = <<>> THEN dct
    ELSE RefreshBereiche(cfg, Tail(sel), DictSet(dct, Head(sel), BereichEntry(cfg, Head(sel))))

RECURSIVE RefreshHelpers(_, _, _)
RefreshHelpers(cfg, sel, dct) ==
    IF sel = <<>> THEN dct
    ELSE RefreshHelpers(cfg, Tail(sel), DictSet(dct, Head(sel), HelperEntry(cfg, Head(sel))))

\* a multiselect value: the chosen options, listed in the order of the options
Pick(options, chosen) == SelectSeq(options, LAMBDA x : x \in chosen)

\* the selections the user makes: everything, or everything but one option
Selections(options) ==
    {options} \cup {Pick(options, Range(options) \ {x}) : x \in Range(options)}

\* the area selections the user makes: every area, or every area but the first
AreaSelections(options) == {options, Tail(options)}

(* ------------------------------------------------------------------ *)
(* Script runs without "Plan erstellen"                                *)
(* ------------------------------------------------------------------ *)
\* a file is put into the uploader while no configuration is loaded
Upload(uploaded_file) ==
    /\ pc = "idle"
    /\ ~config_loaded
    /\ LET config == load_config(uploaded_file)
       IN IF config # NoConfig /\ validate_config(config) = {}
          THEN /\ config_data' = config
               /\ config_loaded' = TRUE
               /\ selected_bereiche' = config.bereiche
               /\ selected_helpers' = config.mitarbeiter
               /\ bereiche_cfg' = RefreshBereiche(config, config.bereiche, bereiche_cfg)
               /\ helpers_cfg' = RefreshHelpers(config, config.mitarbeiter, helpers_cfg)
               /\ shown' = "none"
          ELSE /\ shown' = "error"
               /\ UNCHANGED <<config_data, config_loaded, selected_bereiche,
                              selected_helpers, bereiche_cfg, helpers_cfg>>
    /\ UNCHANGED <<pc, plan, used_helpers, df_demand, df_pivot,
                   todo, slot_idx, bereich_kandidaten, styles, history_vars>>

MainApp == pc = "idle" /\ config_loaded /\ config_data # NoConfig

\* the user changes the area selection
SelectBereiche(sel) ==
    /\ MainApp
    /\ sel # selected_bereiche
    /\ selected_bereiche' = sel
    /\ bereiche_cfg' = RefreshBereiche(config_data, sel, bereiche_cfg)
    /\ helpers_cfg' = RefreshHelpers(config_data, selected_helpers, helpers_cfg)
    /\ shown' = "none"
    /\ ResetRun
    /\ last_ran' = FALSE
    /\ last_plan' = <<>>
    /\ UNCHANGED <<config_loaded, config_data,
                   selected_helpers, pc>>

\* the user changes the staff selection
SelectHelpers(sel) ==
    /\ MainApp
    /\ sel # selected_helpers
    /\ selected_helpers' = sel
    /\ bereiche_cfg' = RefreshBereiche(config_data, selected_bereiche, bereiche_cfg)
    /\ helpers_cfg' = RefreshHelpers(config_data, sel, helpers_cfg)
    /\ shown' = "none"
    /\ ResetRun
    /\ last_ran' = FALSE
    /\ last_plan' = <<>>
    /\ UNCHANGED <<config_loaded, config_data,
                   selected_bereiche, pc>>

\* sidebar button "Neue Config laden": the script run of the click goes through
\* sections 1 and 2 first and clears both dicts afterwards, so the refresh
\* leaves no trace; the widgets of the main app are gone with the next run
NeueConfigLaden ==
    /\ MainApp
    /\ config_loaded' = FALSE
    /\ config_data' = NoConfig
    /\ bereiche_cfg' = EmptyDict
    /\ helpers_cfg' = EmptyDict
    /\ selected_bereiche' = <<>>
    /\ selected_helpers' = <<>>
    /\ shown' = "none"
    /\ ResetRun
    /\ last_ran' = FALSE
    /\ last_plan' = <<>>
    /\ UNCHANGED pc

\* sidebar button "Reset Konfiguration": as above, the dicts are cleared after
\* sections 1 and 2 of the same script run; the widgets keep their values
ResetKonfiguration ==
    /\ MainApp
    /\ bereiche_cfg' = EmptyDict
    /\ helpers_cfg' = EmptyDict
    /\ shown' = "none"
    /\ ResetRun
    /\ last_ran' = FALSE
    /\ last_plan' = <<>>
    /\ UNCHANGED <<config_loaded, config_data, widget_vars, pc>>

(* ------------------------------------------------------------------ *)
(* "Plan erstellen": set-up and demand matrix                          *)
(* ------------------------------------------------------------------ *)
standard_plan_map == config_data.standard_dienstplan
rezeption_prioritaet == config_data.spezial_regeln.rezeption_prioritaet
rezeption2_bedarf_vorher == config_data.spezial_regeln.rezeption2_bedarf_erfuellt_vorher

\* the two nested loops over standard_plan_map.items() and belegungen.items()
RECURSIVE Flatten(_)
Flatten(std) ==
    IF std = <<>> THEN <<>>
    ELSE [n \in 1..Len(Head(std).belegungen) |->
            [slot     |-> Head(std).slot,
             bereich  |-> Head(std).belegungen[n][1],
             helferin |-> Head(std).belegungen[n][2]]] \o Flatten(Tail(std))

\* df_demand after the loop over bereiche_cfg: False everywhere, True where a
\* selected area lists the shift on the day
DemandMatrix(bcfg, sel) ==
    [cell \in Range(slots_order) \X Range(sel) |->
        \E b \in Range(bcfg.order) :
            /\ b = cell[2]
            /\ \E d \in Range(days) : \E s \in bcfg.val[b].shifts[d] :
                   SlotLabel(d, s) = cell[1]]

\* the button is pressed: sections 1 and 2 run again, then the set-up of section 3
PlanErstellen ==
    /\ MainApp
    /\ LET bcfg == RefreshBereiche(config_data, selected_bereiche, bereiche_cfg)
       IN /\ bereiche_cfg' = bcfg
          /\ df_demand' = DemandMatrix(bcfg, selected_bereiche)
    /\ helpers_cfg' = RefreshHelpers(config_data, selected_helpers, helpers_cfg)
    /\ plan' = <<>>
    /\ used_helpers' = [ds \in Range(days) \X Range(schifts) |-> {}]
    /\ todo' = Flatten(standard_plan_map)
    /\ pc' = "pref"
    /\ slot_idx' = 0
    /\ bereich_kandidaten' = <<>>
    /\ shown' = "none"
    /\ styles' = <<>>
    /\ df_pivot' = <<>>
    /\ pref_eligible' = {}
    /\ last_commit' = NoCommit
    /\ UNCHANGED <<config_loaded, config_data,
                   widget_vars, last_ran, last_plan>>

(* ------------------------------------------------------------------ *)
(* 3.2 preferred pass                                                  *)
(* ------------------------------------------------------------------ *)
\* the preferred pass with test 5 written as max_hours <= 1
PreferredAccepts_off_by_one(slot, bereich, helferin) ==
    /\ slot \in Range(slots_order)
    /\ bereich \in Range(selected_bereiche)
    /\ Len(SplitSlot(slot)) = 2
    /\ LET d == SplitSlot(slot)[1]
           s == SplitSlot(slot)[2]
           cfg_b == bereiche_cfg.val[bereich]
       IN /\ s \in Get(cfg_b.shifts, d, {})
          /\ DictHas(helpers_cfg, helferin)
          /\ LET hcfg == helpers_cfg.val[helferin]
             IN /\ ~(hcfg.max_hours <= 1)
                /\ s \in Get(hcfg.times, d, {})
                /\ bereich \in hcfg.areas
                /\ helferin \in cfg_b.helpers
                /\ helferin \notin used_helpers[<<d, s>>]

\* the chain of "continue" tests of the preferred pass, for one entry
PreferredAccepts(slot, bereich, helferin) ==
    /\ slot \in Range(slots_order)
    /\ bereich \in Range(selected_bereiche)
    /\ Len(SplitSlot(slot)) = 2
    /\ LET d == SplitSlot(slot)[1]
           s == SplitSlot(slot)[2]
           cfg_b == bereiche_cfg.val[bereich]
       IN /\ s \in Get(cfg_b.shifts, d, {})
          /\ DictHas(helpers_cfg, helferin)
          /\ LET hcfg == helpers_cfg.val[helferin]
             IN /\ ~(hcfg.max_hours <= 0)
                /\ s \in Get(hcfg.times, d, {})
                /\ bereich \in hcfg.areas
                /\ helferin \in cfg_b.helpers
                /\ helferin \notin used_helpers[<<d, s>>]

\* the five conditions of a preferred assignment, read off the state
FiveConditions(e) ==
    /\ e.slot \in Range(slots_order)
    /\ e.bereich \in Range(selected_bereiche)
    /\ df_demand[<<e.slot, e.bereich>>]
    /\ e.helferin \in DOMAIN helpers_cfg.val
    /\ helpers_cfg.val[e.helferin].max_hours > 0
    /\ e.slot[2] \in helpers_cfg.val[e.helferin].times[e.slot[1]]
    /\ e.bereich \in helpers_cfg.val[e.helferin].areas
    /\ e.helferin \in bereiche_cfg.val[e.bereich].helpers
    /\ \A p \in Range(plan) : ~(p.Slot = e.slot /\ p.Helferin = e.helferin)

\* plan.append, max_hours -= 1, used_helpers[(d, s)].add
Commit(slot, bereich, helferin) ==
    /\ plan' = Append(plan, [Slot |-> slot, Bereich |-> bereich, Helferin |-> helferin])
    /\ helpers_cfg' = [helpers_cfg EXCEPT !.val[helferin].max_hours = @ - 1]
    /\ used_helpers' = [used_helpers EXCEPT ![<<slot[1], slot[2]>>] = @ \cup {helferin}]

\* one iteration of the inner loop of the preferred pass
PreferredStep ==
    /\ pc = "pref"
    /\ todo # <<>>
    /\ LET e == Head(todo)
       IN /\ IF PreferredAccepts(e.slot, e.bereich, e.helferin)
             THEN Commit(e.slot, e.bereich, e.helferin)
             ELSE UNCHANGED <<plan, helpers_cfg, used_helpers>>
          /\ pref_eligible' = IF FiveConditions(e) THEN pref_eligible \cup {e}
                              ELSE pref_eligible
    /\ todo' = Tail(todo)
    /\ UNCHANGED <<config_loaded, config_data, bereiche_cfg,
                   df_pivot, widget_vars, pc, df_demand, slot_idx,
                   bereich_kandidaten, shown, styles, last_commit, last_ran,
                   last_plan>>

(* ------------------------------------------------------------------ *)
(* 3.3 fill pass                                                       *)
(* ------------------------------------------------------------------ *)
\* list.sort(key=...) / sorted(..., key=...): ascending and stable
RECURSIVE InsertByKey(_, _, _)
InsertByKey(sorted, x, key) ==
    IF sorted = <<>> THEN <<x>>
    ELSE IF key[x] < key[Head(sorted)] THEN <<x>> \o sorted
    ELSE <<Head(sorted)>> \o InsertByKey(Tail(sorted), x, key)

RECURSIVE SortByKey(_, _)
SortByKey(seq, key) ==
    IF seq = <<>> THEN <<>>
    ELSE InsertByKey(SortByKey(SubSeq(seq, 1, Len(seq) - 1), key), seq[Len(seq)], key)

\* found = any(p['Slot']==slot and p['Bereich']==bereich for p in plan)
found(slot, bereich) == \E n \in 1..Len(plan) : plan[n].Slot = slot /\ plan[n].Bereich = bereich

\* the areas of the slot that are selected, demand the shift and have no entry yet
missing_bereiche(d, s) ==
    SelectSeq(bereiche_cfg.order,
              LAMBDA bereich :
                  /\ bereich \in Range(selected_bereiche)
                  /\ s \in Get(bereiche_cfg.val[bereich].shifts, d, {})
                  /\ ~found(SlotLabel(d, s), bereich))

\* the candidate list without the test "h not in cfg_b['helpers']"
candidates_unlisted(d, s, bereich) ==
    SelectSeq(helpers_cfg.order,
              LAMBDA h :
                  /\ ~(helpers_cfg.val[h].max_hours <= 0)
                  /\ s \in Get(helpers_cfg.val[h].times, d, {})
                  /\ bereich \in helpers_cfg.val[h].areas
                  /\ h \notin used_helpers[<<d, s>>])

\* the candidate list of one open area, in the order of helpers_cfg
candidates(d, s, bereich) ==
    SelectSeq(helpers_cfg.order,
              LAMBDA h :
                  /\ ~(helpers_cfg.val[h].max_hours <= 0)
                  /\ s \in Get(helpers_cfg.val[h].times, d, {})
                  /\ bereich \in helpers_cfg.val[h].areas
                  /\ h \in bereiche_cfg.val[bereich].helpers
                  /\ h \notin used_helpers[<<d, s>>])

\* other_missing of the Rezeption 2 rule
other_missing(missing) ==
    SelectSeq(missing, LAMBDA b : ~startswith(b, "Rezeption") /\ b # "Rezeption 2")

\* the candidate list after the Rezeption 2 rule
kandidaten(d, s, bereich, missing) ==
    IF /\ startswith(bereich, "Rezeption 2")
       /\ rezeption2_bedarf_vorher
       /\ other_missing(missing) # <<>>
    THEN <<>>
    ELSE candidates(d, s, bereich)

\* bereich_kandidaten of the slot without bereich_kandidaten.sort
SortedKandidaten_unsorted(d, s) ==
    LET missing == missing_bereiche(d, s)
    IN [n \in 1..Len(missing) |->
           [bereich |-> missing[n],
            candidates |-> kandidaten(d, s, missing[n], missing)]]

\* bereich_kandidaten of the slot after bereich_kandidaten.sort
SortedKandidaten(d, s) ==
    LET missing == missing_bereiche(d, s)
        pairs == [n \in 1..Len(missing) |->
                     [bereich |-> missing[n],
                      candidates |-> kandidaten(d, s, missing[n], missing)]]
    IN SortByKey(pairs, [bc \in Range(pairs) |-> Len(bc.candidates)])

\* chosen = candidates_sorted[0] without the reception priority
Chosen_without_priority(bereich, cands) ==
    SortByKey(cands, [h \in Range(cands) |-> helpers_cfg.val[h].max_hours])[1]

\* chosen = candidates_sorted[0], unless the reception priority applies
Chosen(bereich, cands) ==
    LET candidates_sorted ==
            SortByKey(cands, [h \in Range(cands) |-> helpers_cfg.val[h].max_hours])
    IN IF startswith(bereich, "Rezeption")
          /\ rezeption_prioritaet \in Range(candidates_sorted)
       THEN rezeption_prioritaet
       ELSE candidates_sorted[1]

\* The loops over days and schifts move on.  An iteration for a slot without
\* an open area changes nothing (its bereich_kandidaten is empty), and what is
\* open in a slot depends only on the plan entries of that slot, so these
\* iterations are passed over: the next position is the next slot with an
\* open area, or the end of the loops.
OpenSlots ==
    {m \in 1..Len(slots_order) :
        missing_bereiche(slots_order[m][1], slots_order[m][2]) # <<>>}

SlotAfter(n) ==
    IF \E m \in OpenSlots : m > n
    THEN /\ pc' = "fill"
         /\ slot_idx' = CHOOSE m \in OpenSlots :
                            m > n /\ \A k \in OpenSlots : k > n => m <= k
    ELSE /\ pc' = "render"
         /\ slot_idx' = Len(slots_order)

\* the preferred pass has gone through standard_plan_map
PreferredDone ==
    /\ pc = "pref"
    /\ todo = <<>>
    /\ SlotAfter(0)
    /\ UNCHANGED <<session_vars, widget_vars, plan, used_helpers, df_demand,
                   df_pivot, todo, bereich_kandidaten, shown, styles, history_vars>>

\* the head of one iteration of the slot loop: missing areas, candidate lists, sort
FillSlot ==
    /\ pc = "fill"
    /\ bereich_kandidaten' =
            SortedKandidaten(slots_order[slot_idx][1], slots_order[slot_idx][2])
    /\ pc' = "commit"
    /\ slot_idx' = slot_idx
    /\ UNCHANGED <<session_vars, widget_vars, plan, used_helpers, df_demand,
                   df_pivot, todo, shown, styles, history_vars>>

\* one iteration of "for bereich, candidates in bereich_kandidaten"
FillCommit ==
    /\ pc = "commit"
    /\ LET slot == slots_order[slot_idx]
           bc == Head(bereich_kandidaten)
       IN IF bc.candidates = <<>>
          THEN UNCHANGED <<plan, helpers_cfg, used_helpers, last_commit>>
          ELSE LET chosen == Chosen(bc.bereich, bc.candidates)
               IN /\ Commit(slot, bc.bereich, chosen)
                  /\ last_commit' =
                        [slot |-> slot, bereich |-> bc.bereich,
                         candidates |-> bc.candidates,
                         hours |-> [h \in Range(bc.candidates) |->
                                       helpers_cfg.val[h].max_hours],
                         chosen |-> chosen,
                         pending |-> Tail(bereich_kandidaten),
                         deferral |-> rezeption2_bedarf_vorher,
                         \* the commits the loop made before in this slot
                         earlier |-> IF last_commit.slot = slot
                                     THEN Append(last_commit.earlier,
                                                 [bereich |-> last_commit.bereich,
                                                  size |-> Len(last_commit.candidates)])
                                     ELSE <<>>]
    /\ bereich_kandidaten' = Tail(bereich_kandidaten)
    /\ IF Tail(bereich_kandidaten) = <<>>
       THEN SlotAfter(slot_idx)
       ELSE pc' = "commit" /\ slot_idx' = slot_idx
    /\ UNCHANGED <<config_loaded, config_data, bereiche_cfg,
                   df_pivot, widget_vars, df_demand, todo, shown, styles,
                   pref_eligible, last_ran, last_plan>>

(* ------------------------------------------------------------------ *)
(* 3.4 / 3.5 pivot table and highlighting                              *)
(* ------------------------------------------------------------------ *)
\* df_plan.pivot(...).reindex(index=slots_order, columns=selected_bereiche).fillna('-')
Pivot(pl, sel) ==
    [cell \in Range(slots_order) \X Range(sel) |->
        IF \E n \in 1..Len(pl) : pl[n].Slot = cell[1] /\ pl[n].Bereich = cell[2]
        THEN pl[CHOOSE n \in 1..Len(pl) :
                    pl[n].Slot = cell[1] /\ pl[n].Bereich = cell[2]].Helferin
        ELSE "-"]

\* highlight_unfilled without the look-up in df_demand
highlight_every_dash(data, demand) ==
    [cell \in DOMAIN data |-> data[cell] = "-"]

\* highlight_unfilled (and the same test in create_excel_export): TRUE where
\* the cell gets the red background
highlight_unfilled(data, demand) ==
    [cell \in DOMAIN data |-> demand[cell] /\ data[cell] = "-"]

\* "if plan:" after the two passes
Render ==
    /\ pc = "render"
    /\ IF plan # <<>>
       THEN /\ df_pivot' = Pivot(plan, selected_bereiche)
            /\ styles' = highlight_unfilled(Pivot(plan, selected_bereiche), df_demand)
            /\ shown' = "roster"
       ELSE /\ shown' = "warning"
            /\ UNCHANGED <<df_pivot, styles>>
    /\ pc' = "idle"
    /\ last_ran' = TRUE
    /\ last_plan' = plan
    /\ UNCHANGED <<config_loaded, config_data, bereiche_cfg, helpers_cfg,
                   widget_vars, plan, used_helpers, df_demand, todo, slot_idx,
                   bereich_kandidaten, pref_eligible, last_commit>>

(* ------------------------------------------------------------------ *)
(* Specification                                                       *)
(* ------------------------------------------------------------------ *)
Next ==
    \/ \E uploaded_file \in Files : Upload(uploaded_file)
    \/ \E sel \in AreaSelections(config_data.bereiche) : SelectBereiche(sel)
    \/ \E sel \in Selections(config_data.mitarbeiter) : SelectHelpers(sel)
    \/ NeueConfigLaden
    \/ ResetKonfiguration
    \/ PlanErstellen
    \/ PreferredStep
    \/ PreferredDone
    \/ FillSlot
    \/ FillCommit
    \/ Render

Spec == Init /\ [][Next]_vars

(* ------------------------------------------------------------------ *)
(* Properties                                                          *)
(* ------------------------------------------------------------------ *)
\* the entries of the plan for one (slot, area) pair
EntriesFor(slot, bereich) ==
    {n \in 1..Len(plan) : plan[n].Slot = slot /\ plan[n].Bereich = bereich}

\* the area demands the slot, read off bereiche_cfg
Demanded(slot, bereich) ==
    /\ bereich \in DOMAIN bereiche_cfg.val
    /\ slot[2] \in bereiche_cfg.val[bereich].shifts[slot[1]]

\* a generate run has finished and its result is on the page
RunFinished == pc = "idle" /\ shown \in {"roster", "warning"}

\* the first state of a generate run: sections 1 and 2 have run, no entry of
\* the preferred table has been looked at
RunStart == pc = "pref" /\ todo = Flatten(standard_plan_map)

\* C1: no double-booking - within one slot of the plan no staff member
\* appears in two entries.
NoDoubleBooking ==
    \A n, m \in 1..Len(plan) :
        (n # m /\ plan[n].Slot = plan[m].Slot) => plan[n].Helferin # plan[m].Helferin

\* C2: hour-budget conservation - a selected staff member starts the run with
\* the configured budget; the run never commits more assignments to them than
\* that budget, and their max_hours never drops below 0.
HourBudgetConserved ==
    \A h \in Range(selected_helpers) :
        /\ Cardinality({n \in 1..Len(plan) : plan[n].Helferin = h})
              <= HelperEntry(config_data, h).max_hours
        /\ (pc # "idle" /\ DictHas(helpers_cfg, h)) => helpers_cfg.val[h].max_hours >= 0

\* C3: eligibility soundness - every entry of the plan names a staff member
\* who is available for the shift on the day, lists the area, and is listed
\* by the area, and an area that is selected and demands the slot.
EligibilitySound ==
    \A n \in 1..Len(plan) :
        LET d == plan[n].Slot[1]
            s == plan[n].Slot[2]
            b == plan[n].Bereich
            h == plan[n].Helferin
        IN /\ plan[n].Slot \in Range(slots_order)
           /\ h \in DOMAIN helpers_cfg.val
           /\ s \in helpers_cfg.val[h].times[d]
           /\ b \in helpers_cfg.val[h].areas
           /\ b \in Range(selected_bereiche)
           /\ h \in bereiche_cfg.val[b].helpers
           /\ Demanded(plan[n].Slot, b)
           /\ df_demand[<<plan[n].Slot, b>>]

\* both passes have committed entries and the run is about to render
EligibilityWitness ==
    /\ pc = "render"
    /\ pref_eligible # {}
    /\ last_commit # NoCommit
    /\ Len(plan) >= 4

\* C4: fresh budget per run - at the start of every run each staff member in
\* helpers_cfg has the configured max hours.
FreshBudgetPerRun ==
    RunStart =>
        \A h \in Range(helpers_cfg.order) :
            helpers_cfg.val[h].max_hours = HelperEntry(config_data, h).max_hours

\* C5: preferred-pass precedence - a preferred entry that met the five
\* conditions when the preferred pass reached it is in the plan from then on,
\* and it is the only entry the plan ever has for its (slot, area).
PreferredPrecedence ==
    \A e \in pref_eligible :
        /\ Cardinality(EntriesFor(e.slot, e.bereich)) = 1
        /\ \A n \in EntriesFor(e.slot, e.bereich) : plan[n].Helferin = e.helferin

\* a finished fill pass that committed another area in the slot of an
\* accepted preferred entry
PreferredWitness ==
    /\ pc = "render"
    /\ \E e \in pref_eligible : \E n \in 1..Len(plan) :
           /\ plan[n].Slot = e.slot
           /\ plan[n].Bereich # e.bereich
           /\ plan[n].Helferin # e.helferin

\* C6: determinism - a run that follows a finished run with no change of the
\* configuration or the selections in between ends with the same plan.
Determinism ==
    (pc = "render" /\ last_ran) => plan = last_plan

\* C7 as stated: after every generate run a cell of a selected area is
\* highlighted exactly if the area demands the slot and the run committed no
\* assignment for it.
CoverageMarkerAfterEveryRun ==
    RunFinished =>
        \A slot \in Range(slots_order) : \A b \in Range(selected_bereiche) :
            (shown = "roster" /\ styles[<<slot, b>>])
                <=> (Demanded(slot, b) /\ EntriesFor(slot, b) = {})

\* C7: coverage marker - in the roster of a run that committed at least one
\* assignment a cell is highlighted exactly if the area demands the slot and
\* the plan has no entry for it, and a cell with an entry shows the staff
\* member of the entry; a run that committed nothing shows the warning and
\* no roster.
CoverageMarker ==
    /\ (RunFinished /\ shown = "roster") =>
           /\ plan # <<>>
           /\ \A slot \in Range(slots_order) : \A b \in Range(selected_bereiche) :
                 /\ styles[<<slot, b>>] <=> (Demanded(slot, b) /\ EntriesFor(slot, b) = {})
                 /\ \A n \in EntriesFor(slot, b) : df_pivot[<<slot, b>>] = plan[n].Helferin
                 /\ EntriesFor(slot, b) = {} => df_pivot[<<slot, b>>] = "-"
    /\ (RunFinished /\ shown = "warning") => plan = <<>>

\* a rendered roster with a highlighted gap, an assigned cell and a cell
\* without demand
CoverageWitness ==
    /\ RunFinished
    /\ shown = "roster"
    /\ \E cell \in DOMAIN styles : styles[cell]
    /\ \E cell \in DOMAIN styles : df_pivot[cell] # "-"
    /\ \E cell \in DOMAIN styles : ~Demanded(cell[1], cell[2]) /\ df_pivot[cell] = "-"

\* C8: secondary-reception deferral - with the rule enabled, when the fill
\* pass commits a Rezeption 2 area, no other area of the slot that is still
\* open has candidates.
Rezeption2Deferred ==
    (/\ last_commit # NoCommit
     /\ last_commit.deferral
     /\ startswith(last_commit.bereich, "Rezeption 2"))
        => \A n \in 1..Len(last_commit.pending) :
               last_commit.pending[n].candidates = <<>>

\* the first candidate, in candidate order, among those with the fewest hours
FewestHoursFirst(c) ==
    c.candidates[CHOOSE n \in 1..Len(c.candidates) :
        /\ \A m \in 1..Len(c.candidates) :
               c.hours[c.candidates[n]] <= c.hours[c.candidates[m]]
        /\ \A m \in 1..(n - 1) :
               c.hours[c.candidates[m]] > c.hours[c.candidates[n]]]

\* C9: staff choice of the fill pass - the committed staff member is the
\* priority staff member when the area name starts with "Rezeption" and that
\* member is a candidate, and otherwise the first candidate among those with
\* the fewest remaining hours at commit time.
StaffChoiceRule ==
    last_commit # NoCommit =>
        last_commit.chosen =
            IF /\ startswith(last_commit.bereich, "Rezeption")
               /\ rezeption_prioritaet \in Range(last_commit.candidates)
            THEN rezeption_prioritaet
            ELSE FewestHoursFirst(last_commit)

\* the priority staff member was committed although another candidate had
\* fewer hours left
PriorityOverridesHours ==
    /\ last_commit # NoCommit
    /\ last_commit.chosen = rezeption_prioritaet
    /\ \E h \in Range(last_commit.candidates) :
           last_commit.hours[h] < last_commit.hours[last_commit.chosen]

\* every entry of the preferred table names a slot of the week, an area and a
\* staff member of the configuration
PreferredRefsKnown(config) ==
    \A n \in 1..Len(Flatten(config.standard_dienstplan)) :
        LET e == Flatten(config.standard_dienstplan)[n]
        IN /\ e.slot \in Range(slots_order)
           /\ e.bereich \in Range(config.bereiche)
           /\ e.helferin \in Range(config.mitarbeiter)

\* every required collection is there and covers every area and staff member
CollectionsComplete(config) ==
    /\ config.json_ok
    /\ required_keys \subseteq config.keys
    /\ Range(config.bereiche) \subseteq DOMAIN config.bereich_schichten
    /\ Range(config.mitarbeiter) \subseteq DOMAIN config.mitarbeiter_verfuegbarkeit
    /\ Range(config.mitarbeiter) \subseteq DOMAIN config.mitarbeiter_bereiche
    /\ Range(config.mitarbeiter) \subseteq DOMAIN config.mitarbeiter_max_stunden

IndexOf(seq, x) == CHOOSE n \in 1..Len(seq) : seq[n] = x

\* the latest commit of the fill pass comes after the earlier commits of its
\* slot in the order "fewer candidates first, then position in areas"
CommittedInOrder(areas) ==
    last_commit # NoCommit =>
        \A n \in 1..Len(last_commit.earlier) :
            LET e == last_commit.earlier[n]
            IN \/ e.size < Len(last_commit.candidates)
               \/ /\ e.size = Len(last_commit.candidates)
                  /\ IndexOf(areas, e.bereich) < IndexOf(areas, last_commit.bereich)

\* C11 as stated: within a slot the fill pass commits the open areas in
\* ascending order of the size of the candidate list computed at the start of
\* the slot, and areas of equal size in the order of the areas in the
\* configuration (config['bereiche']).
ScarcityOrderByConfigList ==
    config_loaded => CommittedInOrder(config_data.bereiche)

\* C11: scarcity ordering - within a slot the fill pass commits the open areas
\* in ascending order of the size of the candidate list computed at the start
\* of the slot, and areas of equal size in the order of the keys of
\* st.session_state.bereiche_cfg, which is the order in which the areas were
\* first entered into that dict since it was last cleared.
ScarcityOrder ==
    CommittedInOrder(bereiche_cfg.order)

\* the fill pass has committed two areas of one slot with candidate lists of
\* equal size, the area that comes later in the configuration first
ScarcityWitness ==
    /\ last_commit # NoCommit
    /\ \E n \in 1..Len(last_commit.earlier) :
           /\ last_commit.earlier[n].size = Len(last_commit.candidates)
           /\ IndexOf(config_data.bereiche, last_commit.earlier[n].bereich)
                  > IndexOf(config_data.bereiche, last_commit.bereich)

\* a staff member of helpers_cfg who could still take the area in the slot:
\* hours left, available for the shift, lists the area, is listed by the
\* area, and has no entry in the slot
StillEligible(slot, bereich, h) ==
    /\ helpers_cfg.val[h].max_hours > 0
    /\ slot[2] \in helpers_cfg.val[h].times[slot[1]]
    /\ bereich \in helpers_cfg.val[h].areas
    /\ h \in bereiche_cfg.val[bereich].helpers
    /\ \A n \in 1..Len(plan) : ~(plan[n].Slot = slot /\ plan[n].Helferin = h)

\* C12: fill-pass maximality - when the two passes of a run are through,
\* every selected area that demands a slot and has no entry for it has no
\* staff member left who could take it, with the Rezeption 2 rule enabled
\* as well as disabled.
FillPassMaximal ==
    pc = "render" =>
        \A slot \in Range(slots_order) : \A b \in Range(selected_bereiche) :
            (Demanded(slot, b) /\ EntriesFor(slot, b) = {})
                => ~\E h \in Range(helpers_cfg.order) : StillEligible(slot, b, h)

\* C13: only selected staff are assigned - every staff member in the plan of
\* a run belongs to the staff selection in force for that run, whatever
\* selections and runs came before; a staff member who was deselected is
\* assigned by neither pass.
OnlySelectedStaff ==
    \A n \in 1..Len(plan) : plan[n].Helferin \in Range(selected_helpers)

====
